---- MODULE Spec2Model ----
(***************************************************************************)
(* Model of weather_app.py: the services (LocationService,                 *)
(* WeatherService), the AsyncRunner, and the WeatherApp controller with    *)
(* its three content widgets.                                              *)
(*                                                                         *)
(* Threads: one main (Tk event loop) thread, which runs the command        *)
(* handlers and the callbacks scheduled with root.after, and one worker    *)
(* thread per AsyncRunner.run call.                                        *)
(*                                                                         *)
(* Conventions: Optional[T] is a sequence of length 0 (None) or 1; floats  *)
(* are integers in tenths (22.5 is 225); text typed in the search entry is *)
(* a sequence of characters so that str.strip() can be computed.           *)
(* requests.Response.json() raises requests.exceptions.JSONDecodeError,    *)
(* a RequestException (requests >= 2.27).                                  *)
(***************************************************************************)
EXTENDS Integers, Sequences, FiniteSets, TLC

\* ------------------------------------------------------------------ bounds
\* Largest number of AsyncRunner.run calls in one behaviour (the one made by
\* WeatherApp.__init__ included).
MaxRuns == 3
\* Largest number of worker threads whose callback has not run yet (threads
\* that died are not counted).
MaxInFlight == 2

\* ----------------------------------------------------------- configuration
SENTINEL_KEY == "YOUR_WEATHERAPI_KEY"
REAL_KEY == "a-real-key"

None == << >>
Some(x) == << x >>
IsNone(o) == o = << >>
Val(o) == o[1]

\* ------------------------------------------------------------- data models
WeatherData(city, region, country, temp_c, temp_f, feels_like_c, feels_like_f, humidity, wind_kph, wind_mph, condition, condition_icon, uv, last_updated) ==
    [city |-> city, region |-> region, country |-> country,
     temp_c |-> temp_c, temp_f |-> temp_f,
     feels_like_c |-> feels_like_c, feels_like_f |-> feels_like_f,
     humidity |-> humidity, wind_kph |-> wind_kph, wind_mph |-> wind_mph,
     condition |-> condition, condition_icon |-> condition_icon,
     uv |-> uv, last_updated |-> last_updated]

LocationData(city, region, country, coordinates) ==
    [city |-> city, region |-> region, country |-> country, coordinates |-> coordinates]

\* ---------------------------------------------------- provider responses
\* What requests.get / raise_for_status / json() can do for one call:
\*   "transport"  requests.ConnectionError
\*   "timeout"    requests.Timeout
\*   "http_error" raise_for_status() raises requests.HTTPError (non-2xx)
\*   "bad_json"   json() raises requests.exceptions.JSONDecodeError
\*   "ok"         a decoded JSON object, in field data
RequestExceptionKinds == {"transport", "timeout", "http_error", "bad_json"}

Failure(kind) == [kind |-> kind, data |-> [none |-> TRUE]]
Ok(data) == [kind |-> "ok", data |-> data]

\* d.get(k, default) of a dict
DictGet(d, k, default) == IF k \in DOMAIN d THEN d[k] ELSE default

\* d restricted to the keys other than k (a response that lacks field k)
Without(d, k) == [x \in (DOMAIN d) \ {k} |-> d[x]]

ParisLocationJson ==
    [city |-> "Paris", region |-> "Ile-de-France", country |-> "FR", loc |-> "48.85,2.35"]

LocationResponses ==
    { Failure(k) : k \in RequestExceptionKinds }
      \cup { Ok(ParisLocationJson), Ok(Without(ParisLocationJson, "city")) }

ParisWeatherJson ==
    [location |-> [name |-> "Paris", region |-> "Ile-de-France", country |-> "France"],
     current |-> [temp_c |-> 180, temp_f |-> 644, feelslike_c |-> 175, feelslike_f |-> 635,
                  humidity |-> 70, wind_kph |-> 115, wind_mph |-> 71,
                  condition |-> [text |-> "Clear", icon |-> "//cdn.weatherapi.com/weather/64x64/day/113.png"],
                  uv |-> 40, last_updated |-> "2024-05-01 10:00"]]

OsloWeatherJson ==
    [location |-> [name |-> "Oslo", region |-> "Oslo", country |-> "Norway"],
     current |-> [temp_c |-> -25, temp_f |-> 275, feelslike_c |-> -65, feelslike_f |-> 203,
                  humidity |-> 86, wind_kph |-> 205, wind_mph |-> 127,
                  condition |-> [text |-> "Light snow", icon |-> "//cdn.weatherapi.com/weather/64x64/day/326.png"],
                  uv |-> 5, last_updated |-> "2024-05-01 10:15"]]

\* Successful (2xx, decodable) responses that lack a field get_weather reads.
IncompleteWeatherJson ==
    { Without(ParisWeatherJson, "current"),
      [ParisWeatherJson EXCEPT !.current = Without(ParisWeatherJson.current, "uv")] }

WeatherResponses ==
    { Failure(k) : k \in RequestExceptionKinds }
      \cup { Ok(ParisWeatherJson), Ok(OsloWeatherJson) }
      \cup { Ok(d) : d \in IncompleteWeatherJson }

\* --------------------------------------------------------------- services
\* The outcome of a call: a returned value, or an exception that propagates.
Return(v) == [raised |-> FALSE, exc |-> "", value |-> v]
Raise(e) == [raised |-> TRUE, exc |-> e, value |-> None]

\* Mutant of get_location_from_ip: a response without a city is a failure.
get_location_from_ip_requiring_city(resp) ==
    IF resp.kind \in RequestExceptionKinds \/ "city" \notin DOMAIN resp.data
    THEN Return(None)
    ELSE Return(Some(LocationData(resp.data["city"],
                                  DictGet(resp.data, "region", ""),
                                  DictGet(resp.data, "country", ""),
                                  DictGet(resp.data, "loc", ""))))

\* LocationService.get_location_from_ip, the Location Provider answering resp
get_location_from_ip(resp) ==
    IF resp.kind \in RequestExceptionKinds
    THEN Return(None)
    ELSE Return(Some(LocationData(DictGet(resp.data, "city", "Unknown"),
                                  DictGet(resp.data, "region", ""),
                                  DictGet(resp.data, "country", ""),
                                  DictGet(resp.data, "loc", ""))))

DemoWeather ==
    WeatherData("Demo City", "Demo Region", "DC", 225, 725, 230, 734, 65, 150, 93,
                "Partly Cloudy", "//cdn.weatherapi.com/weather/64x64/day/116.png",
                50, "2024-01-01 12:00")

LocationKeys == {"name", "region", "country"}
CurrentKeys == {"temp_c", "temp_f", "feelslike_c", "feelslike_f", "humidity",
                "wind_kph", "wind_mph", "condition", "uv", "last_updated"}
ConditionKeys == {"text", "icon"}

\* Mutant of ParseWeather: the temperatures are stored in whole degrees.
ParseWeather_whole_degrees(data) ==
    IF ~ ({"location", "current"} \subseteq DOMAIN data) THEN Raise("KeyError")
    ELSE LET location == data["location"]
             current == data["current"]
         IN IF ~ (LocationKeys \subseteq DOMAIN location) THEN Raise("KeyError")
            ELSE IF ~ (CurrentKeys \subseteq DOMAIN current) THEN Raise("KeyError")
            ELSE IF ~ (ConditionKeys \subseteq DOMAIN current["condition"]) THEN Raise("KeyError")
            ELSE Return(Some(WeatherData(
                     location["name"], location["region"], location["country"],
                     (current["temp_c"] \div 10) * 10, (current["temp_f"] \div 10) * 10,
                     (current["feelslike_c"] \div 10) * 10, (current["feelslike_f"] \div 10) * 10,
                     current["humidity"], current["wind_kph"], current["wind_mph"],
                     current["condition"]["text"], current["condition"]["icon"],
                     current["uv"], current["last_updated"])))

\* data[k] raises KeyError when k is missing; only requests.RequestException
\* is caught, so the KeyError leaves get_weather.
ParseWeather(data) ==
    IF ~ ({"location", "current"} \subseteq DOMAIN data) THEN Raise("KeyError")
    ELSE LET location == data["location"]
             current == data["current"]
         IN IF ~ (LocationKeys \subseteq DOMAIN location) THEN Raise("KeyError")
            ELSE IF ~ (CurrentKeys \subseteq DOMAIN current) THEN Raise("KeyError")
            ELSE IF ~ (ConditionKeys \subseteq DOMAIN current["condition"]) THEN Raise("KeyError")
            ELSE Return(Some(WeatherData(
                     location["name"], location["region"], location["country"],
                     current["temp_c"], current["temp_f"],
                     current["feelslike_c"], current["feelslike_f"],
                     current["humidity"], current["wind_kph"], current["wind_mph"],
                     current["condition"]["text"], current["condition"]["icon"],
                     current["uv"], current["last_updated"])))

\* query is sent to the provider; the provider's answer is resp.
get_weather(key, query, resp) ==
    IF key = SENTINEL_KEY THEN Return(Some(DemoWeather))
    ELSE IF resp.kind \in RequestExceptionKinds THEN Return(None)
    ELSE ParseWeather(resp.data)

\* ------------------------------------------------------------ search text
Whitespace == {" "}

RECURSIVE LStrip(_)
LStrip(s) == IF s # << >> /\ Head(s) \in Whitespace THEN LStrip(Tail(s)) ELSE s

RECURSIVE RStrip(_)
RStrip(s) ==
    IF s # << >> /\ s[Len(s)] \in Whitespace THEN RStrip(SubSeq(s, 1, Len(s) - 1)) ELSE s

\* Mutant of Strip: the entry text is used as typed.
StripNothing(s) == s

\* str.strip()
Strip(s) == RStrip(LStrip(s))

\* What the user may have typed in the search entry.
SearchTexts ==
    { << >>, << " ", " " >>, << "a" >>, << " ", "a", " " >> }

\* ------------------------------------------------------------------ state
VARIABLES
    API_KEY,          \* the module constant API_KEY
    current_weather,  \* WeatherApp.current_weather, Optional[WeatherData]
    use_celsius,      \* WeatherApp.use_celsius
    packed,           \* the content widgets currently packed (visible)
    card,             \* what WeatherCard's labels show
    error_message,    \* ErrorDisplay.message_label
    unit_btn,         \* text of the unit button
    theme_btn,        \* text of the theme button
    appearance,       \* ctk.get_appearance_mode()
    runs,             \* one entry per AsyncRunner.run call: the worker thread
    uiQueue,          \* callbacks scheduled with root.after(0, ...), oldest first
    lastEvent,        \* history: the last main-thread step that changed the view
    rejected          \* history: some search was rejected as empty

vars == << API_KEY, current_weather, use_celsius, packed, card, error_message,
           unit_btn, theme_btn, appearance, runs, uiQueue, lastEvent, rejected >>

\* ---------------------------------------------------------------- widgets
ContentWidgets == {"weather_card", "loading_spinner", "error_display"}

\* Mutant of clear_content: the widgets shown before stay packed.
clear_content_keeping(p) == p

\* pack_forget() on the three content widgets
clear_content(p) == p \ ContentWidgets

\* Mutant of show_loading: the spinner is not shown.
show_loading_skipped(p) == p

show_loading(p) == clear_content(p) \cup {"loading_spinner"}

show_weather(p) == clear_content(p) \cup {"weather_card"}

show_error(p) == clear_content(p) \cup {"error_display"}

DefaultErrorMessage == "Unable to fetch weather data"
FetchErrorMessage == "Could not fetch weather data.\nCheck your connection or API key."

\* f"{x:.0f}" of a float given in tenths: round half to even, sign kept.
Round0(x) ==
    LET q == x \div 10
        r == x % 10
    IN IF r < 5 THEN q
       ELSE IF r > 5 THEN q + 1
       ELSE IF q % 2 = 0 THEN q ELSE q + 1

Fmt0(x) == IF x < 0 /\ Round0(x) = 0 THEN "-0" ELSE ToString(Round0(x))

\* str(x) of a float given in tenths
FmtFloat(x) ==
    LET a == IF x < 0 THEN 0 - x ELSE x
    IN (IF x < 0 THEN "-" ELSE "") \o ToString(a \div 10) \o "." \o ToString(a % 10)

\* The labels of a freshly created WeatherCard ("deg" stands for the degree sign).
InitialCard ==
    [location |-> "--", region |-> "", temp |-> "--deg", unit |-> "C",
     feels_like |-> "--degC", wind |-> "-- km/h", condition |-> "--",
     humidity |-> "--%", uv |-> "--", updated |-> ""]

update_weather(weather, celsius) ==
    [location |-> weather.city,
     region |-> weather.region \o ", " \o weather.country,
     temp |-> IF celsius THEN Fmt0(weather.temp_c) \o "deg" ELSE Fmt0(weather.temp_f) \o "deg",
     unit |-> IF celsius THEN "C" ELSE "F",
     feels_like |-> IF celsius THEN Fmt0(weather.feels_like_c) \o "degC"
                    ELSE Fmt0(weather.feels_like_f) \o "degF",
     wind |-> IF celsius THEN Fmt0(weather.wind_kph) \o " km/h"
              ELSE Fmt0(weather.wind_mph) \o " mph",
     condition |-> weather.condition,
     humidity |-> ToString(weather.humidity) \o "%",
     uv |-> FmtFloat(weather.uv),
     updated |-> "Updated: " \o weather.last_updated]

\* The view the user sees: which of the three content widgets is packed.
View ==
    IF packed = {"loading_spinner"} THEN "Loading"
    ELSE IF packed = {"weather_card"} THEN "Weather"
    ELSE IF packed = {"error_display"} THEN "Error"
    ELSE "Mixed"

\* ---------------------------------------------------------- worker threads
\* pc of a worker thread:
\*   "location"   in task(), about to call get_location_from_ip
\*   "weather"    in task(), about to call get_weather
\*   "done"       task() returned and root.after called, thread ended,
\*                callback not yet run
\*   "died"       task() raised, thread ended without calling root.after
\*   "delivered"  the callback has run
\* chain and city are what the task closure captured; location is the local of
\* the by-location task; result is the local of worker().  wxCalls and
\* netCalls are history: the number of get_weather calls made and of requests
\* sent to the Weather Provider.
\* callbacks counts the runs of the callback.  The locals go when the thread
\* dies, and everything but callbacks once the callback has run.
NewRun(chain, city) ==
    [pc |-> IF chain = "location" THEN "location" ELSE "weather",
     chain |-> chain, city |-> city, location |-> None,
     wxCalls |-> 0, netCalls |-> 0,
     result |-> None, exc |-> "", callbacks |-> 0]

Finished(run) ==
    [pc |-> "delivered", chain |-> "", city |-> << >>, location |-> None,
     wxCalls |-> 0, netCalls |-> 0,
     result |-> None, exc |-> "", callbacks |-> run.callbacks + 1]

Died(run, exc) ==
    [pc |-> "died", chain |-> "", city |-> << >>, location |-> None,
     wxCalls |-> 0, netCalls |-> 0,
     result |-> None, exc |-> exc, callbacks |-> run.callbacks]

RunIds == 1..Len(runs)

InFlight == { r \in RunIds : runs[r].pc \notin {"died", "delivered"} }

\* The bounds on the user: a fetch command is issued only within them.
MayDispatch == Len(runs) < MaxRuns /\ Cardinality(InFlight) < MaxInFlight

\* Mutant of AsyncRunner_run: two threads are started for one call.
AsyncRunner_run_twice(chain, city) ==
    runs' = Append(Append(runs, NewRun(chain, city)), NewRun(chain, city))

\* thread = threading.Thread(target=worker, daemon=True); thread.start()
AsyncRunner_run(chain, city) == runs' = Append(runs, NewRun(chain, city))

\* name: "callback", or the command that entered Loading; chain, city: the
\* chain dispatched, or the chain of the run whose callback ran; result: the
\* argument of the callback; stale: the callback belonged to a run started
\* before one whose callback had already run.
Event(name, chain, city, result, stale) ==
    [name |-> name, chain |-> chain, city |-> city, result |-> result, stale |-> stale]

Init ==
    /\ API_KEY \in {SENTINEL_KEY, REAL_KEY}
    /\ current_weather = None
    /\ use_celsius = TRUE
    /\ packed = {"loading_spinner"}
    /\ card = InitialCard
    /\ error_message = DefaultErrorMessage
    /\ unit_btn = "degF"
    /\ theme_btn = "sun"
    /\ appearance = "Dark"
    /\ runs = << NewRun("location", << >>) >>
    /\ uiQueue = << >>
    /\ lastEvent = Event("__init__", "location", << >>, None, FALSE)
    /\ rejected = FALSE

\* root.after(0, lambda: callback(result)) called by the worker of run r
root_after(queue, r) == Append(queue, r)

\* worker() once task() has returned result: schedule the callback and end.
\* The locals of task() are gone.
Returned(run, result) ==
    [run EXCEPT !.pc = "done", !.location = None, !.result = result]

\* Mutant of LocationCall: without the test of location, task() goes on to
\* get_weather with a placeholder location.
LocationCall_without_test(r, resp) ==
    /\ runs[r].pc = "location"
    /\ LET out == get_location_from_ip(resp)
           location == IF IsNone(out.value)
                       THEN Some(LocationData("Unknown", "", "", ""))
                       ELSE out.value
       IN runs' = [runs EXCEPT ![r] = [@ EXCEPT !.location = location, !.pc = "weather"]]
    /\ UNCHANGED << API_KEY, current_weather, use_celsius, packed, card, error_message,
                    unit_btn, theme_btn, appearance, uiQueue, lastEvent, rejected >>

\* task() of _fetch_weather_by_location up to the test of location, the
\* Location Provider answering resp; when the location is None task() returns
\* None and worker() schedules the callback.
LocationCall(r, resp) ==
    /\ runs[r].pc = "location"
    /\ LET out == get_location_from_ip(resp)
       IN IF out.raised
          THEN /\ runs' = [runs EXCEPT ![r] = Died(@, out.exc)]
               /\ UNCHANGED uiQueue
          ELSE IF IsNone(out.value)
          THEN /\ runs' = [runs EXCEPT ![r] = Returned(@, None)]
               /\ uiQueue' = root_after(uiQueue, r)
          ELSE /\ runs' = [runs EXCEPT ![r] = [@ EXCEPT !.location = out.value, !.pc = "weather"]]
               /\ UNCHANGED uiQueue
    /\ UNCHANGED << API_KEY, current_weather, use_celsius, packed, card, error_message,
                    unit_btn, theme_btn, appearance, lastEvent, rejected >>

LocationStep(r) == \E resp \in LocationResponses : LocationCall(r, resp)

\* The argument of get_weather: location.city in the by-location task, the
\* stripped entry text in the search task.
Query(r) == IF runs[r].chain = "location" THEN Val(runs[r].location).city ELSE runs[r].city

\* The provider is not contacted in demo mode.
NoResponse == Failure("none")

\* Mutant of ProviderAnswers: the provider is asked in demo mode too.
ProviderAnswers_asked_always == WeatherResponses

ProviderAnswers == IF API_KEY = SENTINEL_KEY THEN {NoResponse} ELSE WeatherResponses

\* Mutant of WeatherCall: the worker stores the reading itself instead of
\* leaving it to the callback.
WeatherCall_storing(r, resp) ==
    /\ runs[r].pc = "weather"
    /\ LET out == get_weather(API_KEY, Query(r), resp)
       IN IF out.raised
          THEN /\ runs' = [runs EXCEPT ![r] = Died(@, out.exc)]
               /\ UNCHANGED << uiQueue, current_weather >>
          ELSE /\ runs' = [runs EXCEPT ![r] =
                      Returned([@ EXCEPT !.wxCalls = @ + 1,
                                         !.netCalls = IF resp = NoResponse THEN @ ELSE @ + 1],
                               out.value)]
               /\ current_weather' = IF IsNone(out.value) THEN current_weather ELSE out.value
               /\ uiQueue' = root_after(uiQueue, r)
    /\ UNCHANGED << API_KEY, use_celsius, packed, card, error_message,
                    unit_btn, theme_btn, appearance, lastEvent, rejected >>

\* The call of WeatherService.get_weather in either task(), the Weather
\* Provider answering resp (NoResponse: not asked): when it returns, task()
\* returns its value and worker() schedules the callback; when it raises, the
\* exception ends the thread.
WeatherCall(r, resp) ==
    /\ runs[r].pc = "weather"
    /\ LET out == get_weather(API_KEY, Query(r), resp)
       IN IF out.raised
          THEN /\ runs' = [runs EXCEPT ![r] = Died(@, out.exc)]
               /\ UNCHANGED uiQueue
          ELSE /\ runs' = [runs EXCEPT ![r] =
                      Returned([@ EXCEPT !.wxCalls = @ + 1,
                                         !.netCalls = IF resp = NoResponse THEN @ ELSE @ + 1],
                               out.value)]
               /\ uiQueue' = root_after(uiQueue, r)
    /\ UNCHANGED << API_KEY, current_weather, use_celsius, packed, card, error_message,
                    unit_btn, theme_btn, appearance, lastEvent, rejected >>

WeatherStep(r) == \E resp \in ProviderAnswers : WeatherCall(r, resp)

WorkerStep(r) == LocationStep(r) \/ WeatherStep(r)

\* ------------------------------------------------------------- main thread
\* Mutant of fetch_weather_by_location: the command is ignored until the fetch
\* under way has completed.
fetch_weather_by_location_when_idle(name) ==
    /\ packed # {"loading_spinner"}
    /\ packed' = show_loading(packed)
    /\ AsyncRunner_run("location", << >>)
    /\ lastEvent' = Event(name, "location", << >>, None, FALSE)
    /\ UNCHANGED << API_KEY, current_weather, use_celsius, card, error_message,
                    unit_btn, theme_btn, appearance, uiQueue, rejected >>

\* WeatherApp._fetch_weather_by_location, the command of the location button,
\* of the retry button of ErrorDisplay, and the last statement of __init__.
fetch_weather_by_location(name) ==
    /\ packed' = show_loading(packed)
    /\ AsyncRunner_run("location", << >>)
    /\ lastEvent' = Event(name, "location", << >>, None, FALSE)
    /\ UNCHANGED << API_KEY, current_weather, use_celsius, card, error_message,
                    unit_btn, theme_btn, appearance, uiQueue, rejected >>

LocationButton ==
    /\ MayDispatch
    /\ fetch_weather_by_location("location_btn")

\* The retry button is a child of error_display: it can be pressed only while
\* error_display is packed.
RetryButton ==
    /\ "error_display" \in packed
    /\ MayDispatch
    /\ fetch_weather_by_location("retry_btn")

\* Mutant of search_city: a search forgets the stored reading.
search_city_clearing(text) ==
    LET city == Strip(text)
    IN IF city = << >>
       THEN /\ rejected' = TRUE
            /\ UNCHANGED << API_KEY, current_weather, use_celsius, packed, card,
                            error_message, unit_btn, theme_btn, appearance, runs,
                            uiQueue, lastEvent >>
       ELSE /\ MayDispatch
            /\ packed' = show_loading(packed)
            /\ current_weather' = None
            /\ AsyncRunner_run("search", city)
            /\ lastEvent' = Event("search", "search", city, None, FALSE)
            /\ UNCHANGED << API_KEY, use_celsius, card, error_message,
                            unit_btn, theme_btn, appearance, uiQueue, rejected >>

\* WeatherApp._search_city with the entry holding text
search_city(text) ==
    LET city == Strip(text)
    IN IF city = << >>
       THEN /\ rejected' = TRUE
            /\ UNCHANGED << API_KEY, current_weather, use_celsius, packed, card,
                            error_message, unit_btn, theme_btn, appearance, runs,
                            uiQueue, lastEvent >>
       ELSE /\ MayDispatch
            /\ packed' = show_loading(packed)
            /\ AsyncRunner_run("search", city)
            /\ lastEvent' = Event("search", "search", city, None, FALSE)
            /\ UNCHANGED << API_KEY, current_weather, use_celsius, card, error_message,
                            unit_btn, theme_btn, appearance, uiQueue, rejected >>

SearchCity == \E text \in SearchTexts : search_city(text)

\* What _toggle_unit writes: the preference, the text of the unit button and
\* the labels of the card.
UnitState == [use_celsius |-> use_celsius, unit_btn |-> unit_btn, card |-> card]

\* Mutant of toggled_unit: the button only switches to Fahrenheit.
toggled_unit_to_fahrenheit(s, weather) ==
    [use_celsius |-> FALSE,
     unit_btn |-> "degC",
     card |-> IF ~ IsNone(weather) THEN update_weather(Val(weather), FALSE) ELSE s.card]

\* The body of _toggle_unit as a function of what it writes (s) and of
\* current_weather.
toggled_unit(s, weather) ==
    LET celsius == ~ s.use_celsius
    IN [use_celsius |-> celsius,
        unit_btn |-> IF ~ celsius THEN "degC" ELSE "degF",
        card |-> IF ~ IsNone(weather) THEN update_weather(Val(weather), celsius) ELSE s.card]

\* Mutant of toggle_unit: the reading is fetched again under the new unit.
toggle_unit_refetching ==
    /\ MayDispatch
    /\ use_celsius' = ~ use_celsius
    /\ unit_btn' = IF ~ use_celsius' THEN "degC" ELSE "degF"
    /\ packed' = show_loading(packed)
    /\ AsyncRunner_run("location", << >>)
    /\ UNCHANGED << API_KEY, current_weather, card, error_message, theme_btn,
                    appearance, uiQueue, lastEvent, rejected >>

\* Mutant of toggle_unit: the card is not rendered again.
toggle_unit_without_rerender ==
    /\ use_celsius' = ~ use_celsius
    /\ unit_btn' = IF ~ use_celsius' THEN "degC" ELSE "degF"
    /\ UNCHANGED << API_KEY, current_weather, packed, card, error_message, theme_btn,
                    appearance, runs, uiQueue, lastEvent, rejected >>

\* WeatherApp._toggle_unit
toggle_unit ==
    /\ LET t == toggled_unit(UnitState, current_weather)
       IN /\ use_celsius' = t.use_celsius
          /\ unit_btn' = t.unit_btn
          /\ card' = t.card
    /\ UNCHANGED << API_KEY, current_weather, packed, error_message, theme_btn,
                    appearance, runs, uiQueue, lastEvent, rejected >>

\* WeatherApp._toggle_theme
toggle_theme ==
    LET new_mode == IF appearance = "Dark" THEN "light" ELSE "dark"
    IN /\ appearance' = IF new_mode = "light" THEN "Light" ELSE "Dark"
       /\ theme_btn' = IF new_mode = "light" THEN "moon" ELSE "sun"
       /\ UNCHANGED << API_KEY, current_weather, use_celsius, packed, card,
                       error_message, unit_btn, runs, uiQueue, lastEvent, rejected >>

\* Mutant of handle_weather_result: a failure forgets the stored reading.
handle_weather_result_forgetting(weather) ==
    IF ~ IsNone(weather)
    THEN /\ current_weather' = weather
         /\ card' = update_weather(Val(weather), use_celsius)
         /\ packed' = show_weather(packed)
         /\ UNCHANGED error_message
    ELSE /\ packed' = show_error(packed)
         /\ error_message' = FetchErrorMessage
         /\ current_weather' = None
         /\ UNCHANGED card

\* WeatherApp._handle_weather_result
handle_weather_result(weather) ==
    IF ~ IsNone(weather)
    THEN /\ current_weather' = weather
         /\ card' = update_weather(Val(weather), use_celsius)
         /\ packed' = show_weather(packed)
         /\ UNCHANGED error_message
    ELSE /\ packed' = show_error(packed)
         /\ error_message' = FetchErrorMessage
         /\ UNCHANGED << current_weather, card >>

\* Mutant of Callback: the result of a run started before one whose callback
\* has already run is discarded as stale.
Callback_discarding_stale(r) ==
    /\ uiQueue # << >>
    /\ r = Head(uiQueue)
    /\ IF \E b \in RunIds : b > r /\ runs[b].pc = "delivered"
       THEN UNCHANGED << current_weather, card, packed, error_message >>
       ELSE handle_weather_result(runs[r].result)
    /\ uiQueue' = Tail(uiQueue)
    /\ runs' = [runs EXCEPT ![r] = Finished(@)]
    /\ lastEvent' = Event("callback", runs[r].chain, runs[r].city, runs[r].result,
                          \E b \in RunIds : b > r /\ runs[b].pc = "delivered")
    /\ UNCHANGED << API_KEY, use_celsius, unit_btn, theme_btn, appearance, rejected >>

\* The event loop runs the oldest callback scheduled with root.after:
\* callback(result) of the run r that scheduled it.
Callback(r) ==
    /\ uiQueue # << >>
    /\ r = Head(uiQueue)
    /\ handle_weather_result(runs[r].result)
    /\ uiQueue' = Tail(uiQueue)
    /\ runs' = [runs EXCEPT ![r] = Finished(@)]
    /\ lastEvent' = Event("callback", runs[r].chain, runs[r].city, runs[r].result,
                          \E b \in RunIds : b > r /\ runs[b].pc = "delivered")
    /\ UNCHANGED << API_KEY, use_celsius, unit_btn, theme_btn, appearance, rejected >>

RunCallback == \E r \in RunIds : Callback(r)

Worker == \E r \in RunIds : WorkerStep(r)

Next ==
    \/ LocationButton
    \/ RetryButton
    \/ SearchCity
    \/ toggle_unit
    \/ toggle_theme
    \/ RunCallback
    \/ Worker

Spec == Init /\ [][Next]_vars

\* A text that is empty or holds whitespace only.
IsBlank(text) == \A i \in 1..Len(text) : text[i] \in Whitespace

\* ------------------------------------------------------------------ claims

\* C1: for every AsyncRunner.run call the callback is invoked exactly once:
\* never more than once, and once the worker thread has ended and no callback
\* of it is pending, it has been invoked.
C1_CallbackExactlyOnce ==
    \A r \in RunIds :
        /\ runs[r].callbacks <= 1
        /\ runs[r].pc \in {"died", "delivered"} => runs[r].callbacks = 1

\* C2: the view does not stay Loading: when no worker is running and no
\* callback is pending (so that only a new command can change the view), the
\* view is Weather or Error.
C2_LoadingEnds == InFlight = {} => View \in {"Weather", "Error"}

\* C3: a fetch whose provider fails with a transport error, malformed JSON or a
\* timeout hands None to its callback, and the callback of a fetch that failed
\* shows the Error view and leaves current_weather as it was.
C3FailureKinds == {"transport", "bad_json", "timeout"}

C3_ProviderFailureShowsError ==
    [][ \A r \in RunIds :
          /\ (runs[r].pc = "location" /\ runs'[r] # runs[r]) =>
                \A resp \in LocationResponses :
                    (resp.kind \in C3FailureKinds /\ LocationCall(r, resp))
                        => /\ runs'[r].pc = "done"
                           /\ IsNone(runs'[r].result)
                           /\ uiQueue' = Append(uiQueue, r)
          /\ (runs[r].pc = "weather" /\ runs'[r] # runs[r] /\ API_KEY # SENTINEL_KEY) =>
                \A resp \in WeatherResponses :
                    (resp.kind \in C3FailureKinds /\ WeatherCall(r, resp))
                        => /\ runs'[r].pc = "done"
                           /\ IsNone(runs'[r].result)
                           /\ uiQueue' = Append(uiQueue, r)
          /\ (runs[r].pc = "done" /\ IsNone(runs[r].result) /\ Callback(r))
                => View' = "Error" /\ current_weather' = current_weather
      ]_vars

\* A failed fetch completed while a reading was stored: the reading is kept.
C3_Witness ==
    /\ lastEvent.name = "callback"
    /\ IsNone(lastEvent.result)
    /\ View = "Error"
    /\ ~ IsNone(current_weather)

\* C4: get_location_from_ip and get_weather never raise, and get_weather
\* returns None or a WeatherData with every field.
C4_ResolversNeverRaise ==
    \A r \in RunIds :
        /\ runs[r].exc = ""
        /\ ~ IsNone(runs[r].result) =>
              DOMAIN Val(runs[r].result) = DOMAIN DemoWeather

\* C5: a callback that runs after the callback of a later-started run is
\* applied like any other: the view and current_weather become what its result
\* says, and no other run is touched.
C5_LastDeliveredWins ==
    [][ \A a \in RunIds :
            (runs[a].pc = "done" /\ (\E b \in RunIds : b > a /\ runs[b].pc = "delivered")
                /\ Callback(a))
                => /\ IF IsNone(runs[a].result)
                      THEN View' = "Error" /\ current_weather' = current_weather
                      ELSE View' = "Weather" /\ current_weather' = runs[a].result
                   /\ \A c \in RunIds \ {a} : runs'[c] = runs[c]
                   /\ uiQueue' = Tail(uiQueue)
      ]_vars

\* The reading of an earlier-started fetch is shown, delivered after the
\* completion of a later-started one.
C5_Witness ==
    /\ lastEvent.name = "callback"
    /\ lastEvent.stale
    /\ ~ IsNone(lastEvent.result)
    /\ View = "Weather"
    /\ current_weather = lastEvent.result

\* C6: the retry button dispatches the chain of the fetch that failed: the
\* same kind of chain, for the same query.
C6_RetryRerunsFailedChain ==
    [][ RetryButton =>
            /\ runs'[Len(runs')].chain = lastEvent.chain
            /\ runs'[Len(runs')].city = lastEvent.city
      ]_vars

\* C7: get_weather is called in the by-location chain only with a location in
\* hand; when get_location_from_ip returns None the task returns None without
\* a get_weather call, and its callback shows the Error view.
C7_NoWeatherCallWithoutLocation ==
    [][ \A r \in RunIds :
          /\ (runs[r].chain = "location" /\ runs'[r].wxCalls > runs[r].wxCalls)
                => ~ IsNone(runs[r].location)
          /\ (runs[r].pc = "location" /\ runs'[r] # runs[r]) =>
                \A resp \in LocationResponses :
                    (IsNone(get_location_from_ip(resp).value) /\ LocationCall(r, resp))
                        => /\ runs'[r].pc = "done"
                           /\ IsNone(runs'[r].result)
                           /\ runs'[r].wxCalls = 0
                           /\ runs'[r].netCalls = 0
          /\ (runs[r].pc = "done" /\ runs[r].chain = "location" /\ runs[r].wxCalls = 0
                  /\ Callback(r))
                => View' = "Error"
      ]_vars

\* The callback of a by-location chain that made no get_weather call is pending.
C7_Witness ==
    \E r \in RunIds :
        /\ runs[r].chain = "location"
        /\ runs[r].pc = "done"
        /\ runs[r].wxCalls = 0
        /\ IsNone(runs[r].result)

\* C8: submitting an empty or whitespace-only search changes neither the view,
\* nor current_weather, nor the unit, and starts no worker.
C8_BlankSearchIsNoOp ==
    [][ \A text \in SearchTexts :
            IsBlank(text) /\ search_city(text)
                => UNCHANGED << packed, card, error_message, current_weather,
                                use_celsius, unit_btn, runs, uiQueue >>
      ]_vars

\* A blank search was submitted while the weather card was shown.
C8_Witness == rejected /\ View = "Weather" /\ Len(runs) < MaxRuns

\* C9 as stated: every callback finds the Loading view.
C9_CompletionOnlyFromLoading ==
    [][ \A r \in RunIds : Callback(r) => View = "Loading" ]_vars

\* C9 amended: a callback finds the Loading view when it is the first to run
\* since the last command that entered Loading; a callback that runs after
\* another one with no such command in between finds the Weather or Error
\* view that one left.
C9_CompletionFromLoadingOrCompletion ==
    [][ \A r \in RunIds :
            Callback(r) =>
                IF lastEvent.name = "callback"
                THEN View \in {"Weather", "Error"}
                ELSE View = "Loading"
      ]_vars

\* A callback has run and another is pending with no command in between.
C9_Witness ==
    /\ lastEvent.name = "callback"
    /\ uiQueue # << >>
    /\ View \in {"Weather", "Error"}

\* C10: a worker step leaves the controller's state and the widgets alone; all
\* it does to shared state is to schedule its own callback once, as its last
\* step; a step that changes the view, current_weather or use_celsius, or
\* that runs a callback, is no step of a worker.
C10_WorkersOnlySchedule ==
    [][ /\ \A r \in RunIds :
              (runs[r].pc \in {"location", "weather"} /\ runs'[r] # runs[r]) =>
                  /\ UNCHANGED << packed, card, error_message, current_weather,
                                  use_celsius, unit_btn, theme_btn, appearance >>
                  /\ \A c \in RunIds \ {r} : runs'[c] = runs[c]
                  /\ Len(runs') = Len(runs)
                  /\ IF runs'[r].pc = "done"
                     THEN uiQueue' = Append(uiQueue, r)
                     ELSE uiQueue' = uiQueue
        /\ \A r \in RunIds :
              /\ runs[r].pc = "done" <=> (\E i \in 1..Len(uiQueue) : uiQueue[i] = r)
              /\ Cardinality({ i \in 1..Len(uiQueue) : uiQueue[i] = r }) <= 1
              /\ runs'[r].callbacks > runs[r].callbacks =>
                    /\ runs[r].pc = "done"
                    /\ runs'[r].pc = "delivered"
      ]_vars

\* A worker has produced a reading and scheduled its callback; the view is
\* still Loading and no reading is stored.
C10_Witness ==
    /\ View = "Loading"
    /\ IsNone(current_weather)
    /\ \E r \in RunIds : runs[r].pc = "done" /\ ~ IsNone(runs[r].result)

\* The runs whose callback has run.
Delivered == { r \in RunIds : runs[r].pc = "delivered" }

\* C11: in every state exactly one of the weather card, the loading spinner
\* and the error display is packed: never none, never two.
C11_ExactlyOneViewVisible == Cardinality(packed \cap ContentWidgets) = 1

\* The weather card alone is packed after two completions: show_loading,
\* show_weather and show_error or show_loading again have all run before.
C11_Witness ==
    /\ packed = {"weather_card"}
    /\ Cardinality(Delivered) >= 2

\* C12: toggle_unit flips use_celsius, leaves the view and current_weather as
\* they were and starts no worker; when the weather card is shown it shows the
\* same reading under the flipped unit.
C12_ToggleUnitFrame ==
    [][ (use_celsius' # use_celsius /\ toggle_unit) =>
            /\ use_celsius' = ~ use_celsius
            /\ UNCHANGED << packed, current_weather, runs, uiQueue, error_message >>
            /\ View' = View
            /\ View = "Weather" =>
                  /\ card' = update_weather(Val(current_weather), ~ use_celsius)
                  /\ card'.unit = (IF use_celsius THEN "F" ELSE "C")
                  /\ card'.location = Val(current_weather).city
      ]_vars

\* The unit was toggled while a reading was stored and the Error view is
\* shown: the card, not packed, is rendered in Fahrenheit.
C12_Witness ==
    /\ ~ use_celsius
    /\ unit_btn = "degC"
    /\ View = "Error"
    /\ ~ IsNone(current_weather)
    /\ card.unit = "F"

\* C13: from every state, toggle_unit applied twice gives back use_celsius, the
\* text of the unit button and the labels of the card.
C13_ToggleUnitTwice ==
    toggled_unit(toggled_unit(UnitState, current_weather), current_weather) = UnitState

\* The unit was toggled while a reading is rendered.
C13_Witness ==
    /\ ~ use_celsius
    /\ View = "Weather"
    /\ ~ IsNone(current_weather)
    /\ card = update_weather(Val(current_weather), FALSE)
    /\ toggled_unit(UnitState, current_weather).card # card

\* C14: in a by-location chain whose providers both answer with what was asked
\* for, get_weather returns a reading each field of which is the field of the
\* Weather Provider's response, and the callback of such a chain, no other
\* fetch being in flight, stores that reading and shows the weather card
\* rendered under the current unit.
C14_LocationChainCopiesReading ==
    [][ (API_KEY = REAL_KEY /\ Len(runs') = Len(runs)) => \A r \in RunIds :
          /\ (runs[r].pc = "weather" /\ runs[r].chain = "location"
                  /\ runs'[r].pc # "weather") =>
                \A resp \in WeatherResponses :
                    (resp.kind = "ok" /\ resp.data \notin IncompleteWeatherJson
                        /\ WeatherCall(r, resp))
                        => /\ runs'[r].pc = "done"
                           /\ ~ IsNone(runs'[r].result)
                           /\ LET w == Val(runs'[r].result)
                                  d == resp.data
                              IN /\ w.city = d.location.name
                                 /\ w.region = d.location.region
                                 /\ w.country = d.location.country
                                 /\ w.temp_c = d.current.temp_c
                                 /\ w.temp_f = d.current.temp_f
                                 /\ w.feels_like_c = d.current.feelslike_c
                                 /\ w.feels_like_f = d.current.feelslike_f
                                 /\ w.humidity = d.current.humidity
                                 /\ w.wind_kph = d.current.wind_kph
                                 /\ w.wind_mph = d.current.wind_mph
                                 /\ w.condition = d.current.condition.text
                                 /\ w.condition_icon = d.current.condition.icon
                                 /\ w.uv = d.current.uv
                                 /\ w.last_updated = d.current.last_updated
          /\ (runs[r].pc = "done" /\ runs'[r].pc = "delivered"
                  /\ runs[r].chain = "location" /\ ~ IsNone(runs[r].result)
                  /\ InFlight = {r} /\ Callback(r))
                => /\ View' = "Weather"
                   /\ current_weather' = runs[r].result
                   /\ card' = update_weather(Val(runs[r].result), use_celsius)
                   /\ card'.unit = (IF use_celsius THEN "C" ELSE "F")
                   /\ InFlight' = {}
      ]_vars

\* The reading of a by-location chain answered by the Weather Provider is
\* shown, in Fahrenheit, and no fetch is in flight.
C14_Witness ==
    /\ API_KEY = REAL_KEY
    /\ lastEvent.name = "callback"
    /\ lastEvent.chain = "location"
    /\ InFlight = {}
    /\ View = "Weather"
    /\ current_weather = lastEvent.result
    /\ Val(current_weather).temp_f = OsloWeatherJson.current.temp_f
    /\ ~ use_celsius
    /\ card.temp = "28deg"

\* The worker threads that have not finished task().
Running == { r \in RunIds : runs[r].pc \in {"location", "weather"} }

\* C15: the main thread never waits for a task: the step that calls
\* AsyncRunner.run ends with the new worker still before the first call of its
\* task and with no callback scheduled, and while the view is Loading and
\* workers are running the unit button, the location button and the search
\* (with any text) can be used (the last two within the bounds on the number of
\* fetches).
C15_MainThreadNeverWaits ==
    /\ [] ( (View = "Loading" /\ Running # {}) =>
                /\ ENABLED toggle_unit
                /\ (Len(runs) < MaxRuns /\ Cardinality(InFlight) < MaxInFlight) =>
                      /\ ENABLED LocationButton
                      /\ \A text \in SearchTexts : ENABLED search_city(text) )
    /\ [][ Len(runs') # Len(runs) =>
              /\ Len(runs') = Len(runs) + 1
              /\ runs'[Len(runs')] \in
                    { NewRun("location", << >>) } \cup
                    { NewRun("search", Strip(text)) : text \in SearchTexts }
              /\ \A c \in RunIds : runs'[c] = runs[c]
              /\ uiQueue' = uiQueue
              /\ Running' = Running \cup {Len(runs')}
       ]_vars

\* A command was taken while the worker of an earlier command was running: two
\* workers run and none has finished.
C15_Witness ==
    /\ View = "Loading"
    /\ Cardinality(Running) >= 2
    /\ lastEvent.name \in {"location_btn", "search"}
    /\ uiQueue = << >>

\* The queries get_weather is called with: the city of a location, or the
\* stripped text of a search.
CityQueries == { "Paris", "Unknown" }
SearchQueries == { Strip(text) : text \in SearchTexts }

\* C16: with the sentinel key get_weather returns the demo reading for every
\* query, whatever the provider would have answered, and sends no request: in
\* demo mode no run has sent a request, every get_weather call made has
\* returned the demo reading, no thread died, and the stored reading, if any,
\* is the demo reading.
C16_DemoModeFixedReading ==
    /\ \A resp \in WeatherResponses \cup {NoResponse} :
          /\ \A q \in CityQueries :
                get_weather(SENTINEL_KEY, q, resp) = Return(Some(DemoWeather))
          /\ \A q \in SearchQueries :
                get_weather(SENTINEL_KEY, q, resp) = Return(Some(DemoWeather))
    /\ DemoWeather.city = "Demo City"
    /\ API_KEY = SENTINEL_KEY =>
          /\ \A r \in RunIds :
                /\ runs[r].netCalls = 0
                /\ runs[r].pc # "died"
                /\ runs[r].wxCalls > 0 => runs[r].result = Some(DemoWeather)
          /\ IsNone(current_weather) \/ current_weather = Some(DemoWeather)

\* In demo mode the reading of a by-location chain is stored and a search has
\* returned the same reading.
C16_Witness ==
    /\ API_KEY = SENTINEL_KEY
    /\ current_weather = Some(DemoWeather)
    /\ lastEvent.name = "callback"
    /\ lastEvent.chain = "location"
    /\ \E r \in RunIds :
          /\ runs[r].chain = "search"
          /\ runs[r].pc = "done"
          /\ runs[r].wxCalls = 1
          /\ runs[r].netCalls = 0
          /\ runs[r].result = current_weather

FetchCommands == {"location_btn", "retry_btn", "search"}

\* C17: the application starts in the Loading view with one worker; every
\* step that starts a worker is a fetch command, starts exactly one, and ends
\* in the Loading view with that worker before the first call of its task and
\* its callback not scheduled; every fetch command taken starts a worker.
C17_FetchCommandsEnterLoading ==
    /\ (View = "Loading" /\ runs = << NewRun("location", << >>) >> /\ uiQueue = << >>)
    /\ [][ /\ Len(runs') # Len(runs) =>
                  /\ Len(runs') = Len(runs) + 1
                  /\ lastEvent'.name \in FetchCommands
                  /\ View' = "Loading"
                  /\ runs'[Len(runs')] = NewRun(lastEvent'.chain, lastEvent'.city)
                  /\ \A i \in 1..Len(uiQueue') : uiQueue'[i] # Len(runs')
                  /\ \A c \in RunIds : runs'[c] = runs[c]
           /\ (lastEvent' # lastEvent /\ lastEvent'.name \in FetchCommands) =>
                  Len(runs') = Len(runs) + 1
       ]_vars

\* The retry button was pressed in the Error view: the view is Loading and
\* the worker started has not made its first call.
C17_Witness ==
    /\ lastEvent.name = "retry_btn"
    /\ View = "Loading"
    /\ runs[Len(runs)] = NewRun("location", << >>)
    /\ Cardinality(Delivered) >= 1

\* A JSON object with no members.
EmptyJson == [k \in {} |-> ""]

\* C18: get_location_from_ip, given a decoded response without a city,
\* returns a location whose city is "Unknown", and one whose region, country
\* and coordinates are "" when the response has none; the by-location task
\* then goes on to get_weather with the query "Unknown".
C18_MissingCityIsUnknown ==
    /\ get_location_from_ip(Ok(Without(ParisLocationJson, "city")))
          = Return(Some(LocationData("Unknown", "Ile-de-France", "FR", "48.85,2.35")))
    /\ get_location_from_ip(Ok(EmptyJson)) = Return(Some(LocationData("Unknown", "", "", "")))
    /\ [][ \A r \in RunIds :
              (runs[r].pc = "location" /\ runs'[r] # runs[r]) =>
                  \A resp \in LocationResponses :
                      (resp.kind = "ok" /\ "city" \notin DOMAIN resp.data
                          /\ LocationCall(r, resp))
                          => /\ runs'[r].pc = "weather"
                             /\ ~ IsNone(runs'[r].location)
                             /\ Val(runs'[r].location).city = "Unknown"
                             /\ Query(r)' = "Unknown"
                             /\ uiQueue' = uiQueue
       ]_vars

\* A by-location task is about to call get_weather with the query "Unknown".
C18_Witness ==
    \E r \in RunIds :
        /\ runs[r].chain = "location"
        /\ runs[r].pc = "weather"
        /\ Query(r) = "Unknown"
        /\ Val(runs[r].location).region = "Ile-de-France"

\* C19: whenever the weather card is the view, a reading is stored, the card
\* shows that reading, and it shows it under the unit use_celsius says.
C19_CardShowsCurrentWeather ==
    View = "Weather" =>
        /\ ~ IsNone(current_weather)
        /\ card = update_weather(Val(current_weather), use_celsius)
        /\ card.location = Val(current_weather).city
        /\ card.condition = Val(current_weather).condition
        /\ card.unit = (IF use_celsius THEN "C" ELSE "F")
        /\ card.temp = (IF use_celsius THEN Fmt0(Val(current_weather).temp_c)
                        ELSE Fmt0(Val(current_weather).temp_f)) \o "deg"

\* The card shows, in Celsius again after the unit was toggled, the reading of
\* the second completion.
C19_Witness ==
    /\ View = "Weather"
    /\ use_celsius
    /\ unit_btn = "degF"
    /\ card.unit = "C"
    /\ card.temp = "-2deg"
    /\ Cardinality(Delivered) >= 2

\* C20: current_weather is None at the start and changes only in the step
\* that runs the callback of a fetch that produced a reading, to that reading;
\* no command and no callback given None changes it, and it never goes back
\* to None.
C20_ReadingChangesOnlyOnSuccess ==
    /\ IsNone(current_weather)
    /\ [][ /\ current_weather' # current_weather =>
                  /\ uiQueue # << >>
                  /\ runs[Head(uiQueue)].pc = "done"
                  /\ ~ IsNone(runs[Head(uiQueue)].result)
                  /\ Callback(Head(uiQueue))
                  /\ current_weather' = runs[Head(uiQueue)].result
           /\ ~ IsNone(current_weather) => ~ IsNone(current_weather')
           /\ (Len(runs') # Len(runs) \/ use_celsius' # use_celsius
                  \/ appearance' # appearance \/ rejected' # rejected)
                  => current_weather' = current_weather
           /\ (uiQueue # << >> /\ IsNone(runs[Head(uiQueue)].result)
                  /\ uiQueue' = Tail(uiQueue))
                  => current_weather' = current_weather
       ]_vars

\* A reading is stored and has outlived a failed completion and a search.
C20_Witness ==
    /\ ~ IsNone(current_weather)
    /\ lastEvent.name = "search"
    /\ View = "Loading"
    /\ error_message = FetchErrorMessage

====
